---- MODULE Spec2Model ----
(***************************************************************************)
(* State machine of the image editor (pouryare/image_editor): the three    *)
(* image buffers of ImageEditor, the undo/redo history of ActionHandlers,  *)
(* the canvas event bindings, the side panel and the handlers of every     *)
(* tool, at the level of buffer contents and buffer storage.               *)
(*                                                                         *)
(* An image (a numpy array) is a record [px, loc]: px is its content, loc  *)
(* the storage it occupies.  Two names that hold the same array object     *)
(* have the same loc; ndarray.copy() and every cv2 call that returns a new *)
(* array yield storage of their own.  The pixel algorithms of cv2 and the  *)
(* decoder are external: the content such a call produces is an input of  *)
(* the action, drawn from Pixels.  The program never inspects a content,   *)
(* it only copies it, so two contents are enough to tell equal images from *)
(* different ones.                                                         *)
(*                                                                         *)
(* The specifications share the handlers:                                  *)
(*   Spec         every handler of the editor but the colour chooser, Save *)
(*                with a file written; apply_changes is followed while the *)
(*                history it leaves holds at most MaxDepth snapshots.      *)
(*   SpecFile     Open and Save with every answer of the file dialogs and  *)
(*                of cv2.imwrite, between previews, commits and undos.     *)
(*   SpecHistory  the operations on the history (load, apply, cancel,      *)
(*                revert, undo, redo, clear_history) with no bound: the    *)
(*                history fills to max_history and evicts.                 *)
(*   SpecCrop     the crop tool with selections between any two of nine    *)
(*                canvas positions.                                        *)
(*   SpecDraw     the draw tool with the colour chooser.                   *)
(*   SpecUndo     one load, edits and applies, then undos.                 *)
(*   SpecTransform the rotation and flip panels with the fields of          *)
(*                TransformTools that track the rotation and the flips.   *)
(*   SpecFault    apply_changes, cancel_changes and revert_all with        *)
(*                allocations that raise MemoryError.                      *)
(*   SpecViewport the crop tool at the level of image dimensions: the     *)
(*                shapes of the buffers and the view display_image leaves. *)
(*   SpecGeometry the functions that compute the display size, the view,   *)
(*                the crop slice and the coordinate mappings, each applied *)
(*                to inputs of its own.                                    *)
(***************************************************************************)
EXTENDS Integers, Sequences, FiniteSets, TLC

VARIABLES original_image, edited_image, filtered_image,
          history, history_position,
          filter_states, active_filters,
          bindings, panel, crop, canvas, color_code, transforms, probe, last_op

vars == <<original_image, edited_image, filtered_image, history,
          history_position, filter_states, active_filters, bindings, panel,
          crop, canvas, color_code, transforms, probe, last_op>>

(* ---------------------------------------------------------------------- *)
(* Bounds and program constants                                            *)
(* ---------------------------------------------------------------------- *)

\* ActionHandlers.max_history
max_history == 10

\* Spec follows apply_changes while the history it leaves has at most
\* MaxDepth snapshots.
MaxDepth == 2

\* CropTools.MIN_CROP_SIZE
MIN_CROP_SIZE == 10

\* ImageUtils.default_width, default_height, padding
default_width == 900
default_height == 700
padding == 100

\* Image sides followed by SpecGeometry: 1, the multiples of 50 up to
\* 50 * MaxSideSteps, and the sides next to the display limits.
MaxSideSteps == 24
Sides == {1, 599, 600, 601, 799, 800, 801} \cup {50 * k : k \in 1..MaxSideSteps}

\* Image contents.
Pixels == {"a", "b"}

\* The filters followed, two of the nine of FilterTools.filter_states (the
\* nine handlers differ only in the cv2 call).
Filters == {"negative", "bw"}

\* The event sequences the tools bind on the canvas.
EventSequences == {"<ButtonPress>", "<B1-Motion>", "<ButtonRelease>",
                   "<ButtonPress-1>", "<ButtonRelease-1>", "<Escape>"}

\* Canvas positions of pointer events: the corners of the selection
\* (410,310)-(460,380), and positions MIN_CROP_SIZE and MIN_CROP_SIZE - 1
\* canvas pixels from its first corner.
Xs == {410, 420, 460}
Ys == {310, 319, 380}
Points == {[x |-> x, y |-> y] : x \in Xs, y \in Ys}

\* The corners of the selections SpecGeometry follows: Points, the canvas
\* origin (the corner a selection keeps when no drag set it) and two
\* positions beyond every displayed image.
Corners == Points \cup {[x |-> 0, y |-> 0], [x |-> 880, y |-> 680], [x |-> 899, y |-> 699]}

\* Image shapes (numpy shape[:2]) SpecGeometry follows: one shown at its own
\* size, five shown scaled down (by 5/4, 2, 7/6, 7/5 and 3), one too narrow
\* to be shown.
Shapes == {[height |-> 100,  width |-> 100],
           [height |-> 900,  width |-> 1000],
           [height |-> 1200, width |-> 1600],
           [height |-> 700,  width |-> 300],
           [height |-> 840,  width |-> 840],
           [height |-> 1800, width |-> 2400],
           [height |-> 601,  width |-> 1]}

\* SpecViewport follows a crop session for at most MaxReleases accepted
\* releases of the pointer.
MaxReleases == 2

\* The image coordinates SpecGeometry takes to the canvas and back run from 0
\* to MaxCoord on each axis.
MaxCoord == 8

\* The canvas position of the pointer events that Spec follows.
SpecPoints == {[x |-> 410, y |-> 310]}

\* CropTools.__init__ and _reset_crop_state: the fields of the selection.
NoCrop == [crop_start_x |-> 0, crop_start_y |-> 0,
           crop_end_x   |-> 0, crop_end_y   |-> 0, rectangle_id |-> 0]

\* The colours of the colour chooser; "red" is constants.DEFAULT_COLOR,
\* ((255, 0, 0), '#ff0000'), and BGR (0, 0, 255).
Colours == {"red", "green"}

DEFAULT_COLOR == "red"

\* FileOperations.supported_formats, one of the five.
supported_formats == {".jpg"}

\* What a file dialog returns, as the extension of the file chosen: nothing
\* (the dialog was cancelled), or a file name with one of two extensions.
Filenames == {"", ".jpg", ".txt"}

\* What cv2.imread returns: an array with one of the contents, or None.
Decoded == Pixels \cup {"none"}

\* The record of a step in which nothing was drawn, nothing written to a
\* file.
NoStroke == [overlay |-> "none", preview |-> "none"]
NotWritten == [image |-> "none", success |-> FALSE]

\* The allocation of each of apply_changes, cancel_changes and revert_all
\* that raises MemoryError, counted in the order the handler reaches them; 0
\* when none does.
NoFault == [apply |-> 0, cancel |-> 0, revert |-> 0]
Faults  == [apply : 0..3, cancel : 0..1, revert : 0..2]

\* TransformTools.__init__: the rotation in degrees and the two flip flags.
NoTransforms == [current_rotation |-> 0, is_flipped_h |-> FALSE, is_flipped_v |-> FALSE]

\* No geometry computed yet.
NoProbe == [fn |-> "none"]

\* ImageEditor.__init__: ratio = 1.0, x_offset = 0, y_offset = 0.  The ratio
\* is kept as the quotient num / den it was computed from.
InitView == [ratio |-> [num |-> 1, den |-> 1], x_offset |-> 0, y_offset |-> 0]

(* ---------------------------------------------------------------------- *)
(* Images and their storage                                                *)
(* ---------------------------------------------------------------------- *)

\* Python's None in an image attribute.
None == [px |-> "none", loc |-> -1]

\* Storage is named after the name that holds the array: a local of the
\* running handler, the three buffers, then the history entries by index.
BufLoc == [local |-> 0, original_image |-> 1, edited_image |-> 2, filtered_image |-> 3]

HistLoc(i) == 3 + i

\* A new array with content p, about to be stored under the name at.
NewArray(p, at) == [px |-> p, loc |-> at]

\* ndarray.copy(): same content, storage of its own.
Copy(img, at) == NewArray(img.px, at)

\* The editor's state as one record, so that a handler is a function on it.
\* canvas holds the selection rectangles on the canvas, each named after what
\* holds its id: "rectangle_id" for the item CropTools.rectangle_id refers to,
\* "unreferenced" for items whose id no field holds any more.  Three fields
\* record what the running handler did besides assigning: chain the handlers
\* of ActionHandlers entered, in order, and "report" for the message of a
\* failed revert; stroke the colours draw gave the canvas line and cv2.line;
\* written the content given to cv2.imwrite.
Editor == [original_image   |-> original_image,
           edited_image     |-> edited_image,
           filtered_image   |-> filtered_image,
           history          |-> history,
           history_position |-> history_position,
           filter_states    |-> filter_states,
           active_filters   |-> active_filters,
           bindings         |-> bindings,
           panel            |-> panel,
           crop             |-> crop,
           canvas           |-> canvas,
           color_code       |-> color_code,
           transforms       |-> transforms,
           chain            |-> <<>>,
           stroke           |-> NoStroke,
           written          |-> NotWritten]

\* An in-place write into array img (cv2.line and cv2.putText draw into the
\* array they are given): every name holding that array sees content p.
WriteInPlace(s, img, p) ==
    LET W(x) == IF x # None /\ x.loc = img.loc THEN [x EXCEPT !.px = p] ELSE x
    IN [s EXCEPT !.original_image = W(@),
                 !.edited_image   = W(@),
                 !.filtered_image = W(@),
                 !.history        = [i \in 1..Len(@) |-> W(@[i])]]

\* canvas.delete("all"), the first statement of ImageUtils.display_image.
canvas_delete_all(s) == [s EXCEPT !.canvas = {}]

\* rectangle_id = 0 with no canvas.delete before it: the item rectangle_id
\* referred to stays on the canvas, its id held by nothing.
Unreferenced(items) ==
    IF "rectangle_id" \in items
    THEN (items \ {"rectangle_id"}) \cup {"unreferenced"}
    ELSE items

\* A handler of ActionHandlers is entered.
Enter(s, handler) == [s EXCEPT !.chain = Append(@, handler)]

(* ---------------------------------------------------------------------- *)
(* ActionHandlers                                                          *)
(* ---------------------------------------------------------------------- *)

\* list.pop(0) on the history: the entries move down one index, and so do
\* the names of their storage.
PopFirst(h) ==
    [i \in 1..(Len(h) - 1) |->
        IF h[i + 1].loc > BufLoc.filtered_image
        THEN [h[i + 1] EXCEPT !.loc = @ - 1]
        ELSE h[i + 1]]

\* _add_to_history without the removal of the redo states.
_add_to_history_keeps_redo(s, image) ==
    LET app == Append(s.history, Copy(image, HistLoc(Len(s.history) + 1)))
        pos == s.history_position + 1
    IN IF Len(app) > max_history
       THEN [s EXCEPT !.history = PopFirst(app), !.history_position = pos - 1]
       ELSE [s EXCEPT !.history = app, !.history_position = pos]

\* _add_to_history cutting at history[:history_position], one entry short.
_add_to_history_cuts_cursor(s, image) ==
    LET cut == IF s.history_position < Len(s.history) - 1
               THEN SubSeq(s.history, 1, s.history_position)
               ELSE s.history
        app == Append(cut, Copy(image, HistLoc(Len(cut) + 1)))
        pos == s.history_position + 1
    IN IF Len(app) > max_history
       THEN [s EXCEPT !.history = PopFirst(app), !.history_position = pos - 1]
       ELSE [s EXCEPT !.history = app, !.history_position = pos]

\* _add_to_history evicting with history.pop() instead of history.pop(0).
_add_to_history_pops_newest(s, image) ==
    LET cut == IF s.history_position < Len(s.history) - 1
               THEN SubSeq(s.history, 1, s.history_position + 1)
               ELSE s.history
        app == Append(cut, Copy(image, HistLoc(Len(cut) + 1)))
        pos == s.history_position + 1
    IN IF Len(app) > max_history
       THEN [s EXCEPT !.history = SubSeq(app, 1, Len(app) - 1),
                      !.history_position = pos - 1]
       ELSE [s EXCEPT !.history = app, !.history_position = pos]

\* ActionHandlers._add_to_history(image)
_add_to_history(s, image) ==
    LET cut == IF s.history_position < Len(s.history) - 1
               THEN SubSeq(s.history, 1, s.history_position + 1)
               ELSE s.history
        app == Append(cut, Copy(image, HistLoc(Len(cut) + 1)))
        pos == s.history_position + 1
    IN IF Len(app) > max_history
       THEN [s EXCEPT !.history = PopFirst(app), !.history_position = pos - 1]
       ELSE [s EXCEPT !.history = app, !.history_position = pos]

\* ActionHandlers._reset_filter_states(): clears ImageEditor.active_filters.
_reset_filter_states(s) ==
    [s EXCEPT !.active_filters = [f \in DOMAIN @ |-> FALSE]]

\* ActionHandlers.clear_history()
clear_history(s) == [s EXCEPT !.history = <<>>, !.history_position = -1]

\* ActionHandlers._reset_all_states(): the filter flags and color_code; the
\* other fields it and _reset_tool_states assign (draw_ids, the editor's own
\* crop fields, text_extracted) are read by no handler followed here.
_reset_all_states(s) ==
    [_reset_filter_states(s) EXCEPT !.color_code = DEFAULT_COLOR]

\* revert_all without the call of clear_history().
revert_all_keeps_history(s) ==
    IF s.original_image # None
    THEN _reset_all_states(canvas_delete_all(
            [Enter(s, "revert_all") EXCEPT
               !.edited_image   = Copy(s.original_image, BufLoc.edited_image),
               !.filtered_image = Copy(s.original_image, BufLoc.filtered_image)]))
    ELSE Enter(s, "revert_all")

\* ActionHandlers.revert_all() and _handle_action_error("revert"), when the
\* allocation fault.revert raises: with an original image, the first copy
\* (1) or the second (2), which comes after edited_image has been assigned.
\* Nothing else in the try block raises (display_image catches its own
\* exceptions).  The except branch reports and returns.
revert_all_with(s, fault) ==
    LET s0 == Enter(s, "revert_all")
        s1 == [s0 EXCEPT !.edited_image = Copy(s.original_image, BufLoc.edited_image)]
        s2 == [s1 EXCEPT !.filtered_image = Copy(s.original_image, BufLoc.filtered_image)]
    IN IF s.original_image = None
       THEN s0
       ELSE IF fault.revert = 1
       THEN Enter(s0, "report")
       ELSE IF fault.revert = 2
       THEN Enter(s1, "report")
       ELSE _reset_all_states(clear_history(canvas_delete_all(s2)))

\* ActionHandlers.revert_all() when no allocation fails.
revert_all(s) == revert_all_with(s, NoFault)

\* cancel_changes resetting the preview from original_image.
cancel_changes_from_original(s) ==
    IF s.edited_image # None
    THEN canvas_delete_all(
            [Enter(s, "cancel_changes") EXCEPT
               !.filtered_image = Copy(s.original_image, BufLoc.filtered_image)])
    ELSE Enter(s, "cancel_changes")

\* ActionHandlers.cancel_changes() and _handle_action_error("cancel"):
\* edited_image.copy() raises AttributeError when edited_image is None and
\* MemoryError when fault.cancel is 1, before anything is assigned; the
\* except branch calls revert_all().
cancel_changes_with(s, fault) ==
    LET s0 == Enter(s, "cancel_changes")
    IN IF s.edited_image # None /\ fault.cancel = 0
       THEN canvas_delete_all(
               [s0 EXCEPT !.filtered_image = Copy(s.edited_image, BufLoc.filtered_image)])
       ELSE revert_all_with(s0, fault)

\* ActionHandlers.cancel_changes() when no allocation fails.
cancel_changes(s) == cancel_changes_with(s, NoFault)

\* apply_changes with edited_image = filtered_image, the copy left out.
apply_changes_shares_preview(s) ==
    IF s.filtered_image # None
    THEN LET s1 == canvas_delete_all(
                      [Enter(s, "apply_changes") EXCEPT !.edited_image = s.filtered_image])
             s2 == _add_to_history(s1, Copy(s1.edited_image, BufLoc.local))
         IN _reset_filter_states(s2)
    ELSE Enter(s, "apply_changes")

\* apply_changes pushing edited_image whether or not there is a preview.
apply_changes_always_pushes(s) ==
    LET s0 == Enter(s, "apply_changes")
        s1 == IF s.filtered_image # None
              THEN canvas_delete_all(
                      [s0 EXCEPT !.edited_image = Copy(s.filtered_image, BufLoc.edited_image)])
              ELSE s0
    IN _reset_filter_states(_add_to_history(s1, Copy(s1.edited_image, BufLoc.local)))

\* _add_to_history up to the removal of the redo states, the slice
\* history[:history_position + 1].
_add_to_history_redo_removed(s) ==
    IF s.history_position < Len(s.history) - 1
    THEN [s EXCEPT !.history = SubSeq(@, 1, s.history_position + 1)]
    ELSE s

\* ActionHandlers.apply_changes() and _handle_action_error("apply"): without
\* a preview the body is skipped.  With one, the allocation fault.apply
\* raises MemoryError: filtered_image.copy() (1), before anything is
\* assigned; edited_image.copy(), the argument of _add_to_history (2), after
\* edited_image has been assigned and displayed; image.copy() in
\* _add_to_history (3), after the redo states have been removed.  The except
\* branch calls cancel_changes().
apply_changes_with(s, fault) ==
    LET s0 == Enter(s, "apply_changes")
        s1 == canvas_delete_all(
                 [s0 EXCEPT !.edited_image = Copy(s.filtered_image, BufLoc.edited_image)])
    IN IF s.filtered_image = None
       THEN s0
       ELSE IF fault.apply = 1
       THEN cancel_changes_with(s0, fault)
       ELSE IF fault.apply = 2
       THEN cancel_changes_with(s1, fault)
       ELSE IF fault.apply = 3
       THEN cancel_changes_with(_add_to_history_redo_removed(s1), fault)
       ELSE _reset_filter_states(
               _add_to_history(s1, Copy(s1.edited_image, BufLoc.local)))

\* ActionHandlers.apply_changes() when no allocation fails.
apply_changes(s) == apply_changes_with(s, NoFault)

\* ActionHandlers.undo()
\* undo leaving filtered_image as it is.
undo_keeps_preview(s) ==
    IF s.history_position > 0
    THEN LET pos == s.history_position - 1
         IN canvas_delete_all(
               [s EXCEPT !.history_position = pos,
                         !.edited_image     = Copy(s.history[pos + 1], BufLoc.edited_image)])
    ELSE s

undo(s) ==
    IF s.history_position > 0
    THEN LET pos == s.history_position - 1
             e   == Copy(s.history[pos + 1], BufLoc.edited_image)
         IN canvas_delete_all(
               [s EXCEPT !.history_position = pos,
                         !.edited_image     = e,
                         !.filtered_image   = Copy(e, BufLoc.filtered_image)])
    ELSE s

\* redo guarded by history_position <= len(history) - 1: at the last entry
\* the cursor moves and history[history_position] raises IndexError.
redo_past_end(s) ==
    IF s.history_position < Len(s.history) - 1
    THEN LET pos == s.history_position + 1
             e   == Copy(s.history[pos + 1], BufLoc.edited_image)
         IN canvas_delete_all(
               [s EXCEPT !.history_position = pos,
                         !.edited_image     = e,
                         !.filtered_image   = Copy(e, BufLoc.filtered_image)])
    ELSE [s EXCEPT !.history_position = @ + 1]

\* ActionHandlers.redo()
redo(s) ==
    IF s.history_position < Len(s.history) - 1
    THEN LET pos == s.history_position + 1
             e   == Copy(s.history[pos + 1], BufLoc.edited_image)
         IN canvas_delete_all(
               [s EXCEPT !.history_position = pos,
                         !.edited_image     = e,
                         !.filtered_image   = Copy(e, BufLoc.filtered_image)])
    ELSE s

\* ActionHandlers.get_history_info()
\* get_history_info with can_undo computed as history_position >= 0.
get_history_info_undo_at_zero(s) ==
    [position     |-> s.history_position,
     total_states |-> Len(s.history),
     can_undo     |-> s.history_position >= 0,
     can_redo     |-> s.history_position < Len(s.history) - 1]

get_history_info(s) ==
    [position     |-> s.history_position,
     total_states |-> Len(s.history),
     can_undo     |-> s.history_position > 0,
     can_redo     |-> s.history_position < Len(s.history) - 1]

(* ---------------------------------------------------------------------- *)
(* FileOperations                                                          *)
(* ---------------------------------------------------------------------- *)

\* _load_image with filtered_image = image, the copy left out.
_load_image_shares_original(s, p) ==
    LET image == NewArray(p, BufLoc.original_image)
    IN IF p = None.px
       THEN s
       ELSE canvas_delete_all(
               [s EXCEPT !.original_image = image,
                         !.edited_image   = Copy(image, BufLoc.edited_image),
                         !.filtered_image = image])

\* _load_image assigning original_image before it looks at what cv2.imread
\* returned.
_load_image_assigns_first(s, p) ==
    LET image == NewArray(p, BufLoc.original_image)
    IN IF p = None.px
       THEN [s EXCEPT !.original_image = None]
       ELSE canvas_delete_all(
               [s EXCEPT !.original_image = image,
                         !.edited_image   = Copy(image, BufLoc.edited_image),
                         !.filtered_image = Copy(image, BufLoc.filtered_image)])

\* FileOperations._load_image(filename) when cv2.imread returns content p:
\* None raises ValueError before anything is assigned.
_load_image(s, p) ==
    LET image == NewArray(p, BufLoc.original_image)
    IN IF p = None.px
       THEN s
       ELSE canvas_delete_all(
               [s EXCEPT !.original_image = image,
                         !.edited_image   = Copy(image, BufLoc.edited_image),
                         !.filtered_image = Copy(image, BufLoc.filtered_image)])

\* FileOperations._validate_file_format(filename)
_validate_file_format(filename) == filename \in supported_formats

\* upload_image dropping edited_image and filtered_image together with the
\* content of the canvas.
upload_image_drops_working_copies(s, filename, p) ==
    LET s0 == [canvas_delete_all(s) EXCEPT !.edited_image = None, !.filtered_image = None]
    IN IF filename = "" \/ ~_validate_file_format(filename)
       THEN s0
       ELSE _load_image(s0, p)

\* FileOperations.upload_image(): the canvas is emptied, then comes the
\* dialog.  A cancelled dialog returns; an extension that is not supported
\* and a file cv2.imread cannot decode raise ValueError, which
\* _handle_upload_error prints.
upload_image(s, filename, p) ==
    LET s0 == canvas_delete_all(s)
    IN IF filename = "" \/ ~_validate_file_format(filename)
       THEN s0
       ELSE _load_image(s0, p)

\* save_image giving filtered_image to cv2.imwrite.
save_image_writes_preview(s, filename, success) ==
    IF s.edited_image = None \/ filename = ""
    THEN s
    ELSE [s EXCEPT !.written = [image |-> s.filtered_image.px, success |-> success]]

\* FileOperations.save_image() and _save_image(filename): without an image
\* ValueError is raised and printed, a cancelled dialog returns; otherwise
\* cv2.imwrite is given edited_image and returns success.  No field of the
\* editor is assigned.
save_image(s, filename, success) ==
    IF s.edited_image = None \/ filename = ""
    THEN s
    ELSE [s EXCEPT !.written = [image |-> s.edited_image.px, success |-> success]]

(* ---------------------------------------------------------------------- *)
(* ImageEditor and the tools                                               *)
(* ---------------------------------------------------------------------- *)

\* ImageEditor.refresh_side_frame(), called by the setup of tool: three
\* canvas sequences unbound, edited_image displayed, a new side frame.
refresh_side_frame(s, tool) ==
    canvas_delete_all(
       [s EXCEPT !.panel    = tool,
                 !.bindings = [@ EXCEPT !["<ButtonPress>"]   = "unbound",
                                        !["<B1-Motion>"]     = "unbound",
                                        !["<ButtonRelease>"] = "unbound"]])

\* DrawingTools.setup_drawing_tools(): the copy of edited_image comes after
\* the bindings and raises AttributeError when no image is loaded.
setup_drawing_tools(s) ==
    LET s1 == refresh_side_frame(s, "draw")
        s2 == [s1 EXCEPT !.bindings = [@ EXCEPT !["<ButtonPress>"] = "start_draw",
                                                !["<B1-Motion>"]   = "draw"]]
    IN IF s2.edited_image # None
       THEN [s2 EXCEPT !.filtered_image = Copy(s2.edited_image, BufLoc.filtered_image)]
       ELSE s2

\* CropTools.setup_crop_tools(): the selection is reset, then comes the copy,
\* which raises AttributeError when no image is loaded.
setup_crop_tools(s) ==
    LET s0 == [s EXCEPT !.crop = NoCrop, !.canvas = Unreferenced(@)]
    IN IF s.edited_image # None
       THEN LET s1 == [s0 EXCEPT !.filtered_image = Copy(s.edited_image, BufLoc.filtered_image)]
                s2 == refresh_side_frame(s1, "crop")
            IN [s2 EXCEPT !.bindings = [@ EXCEPT !["<ButtonPress-1>"]   = "start_crop",
                                                 !["<B1-Motion>"]       = "update_crop",
                                                 !["<ButtonRelease-1>"] = "end_crop",
                                                 !["<Escape>"]          = "cancel_crop"]]
       ELSE s0

\* TextTools.setup_text_tools()
setup_text_tools(s) ==
    LET s1 == refresh_side_frame(s, "text")
    IN [s1 EXCEPT !.bindings = [@ EXCEPT !["<ButtonPress>"] = "start_text_placement"]]

\* AdjustTools.setup_adjust_tools(): the copy comes first and raises
\* AttributeError when no image is loaded.
setup_adjust_tools(s) ==
    IF s.edited_image # None
    THEN refresh_side_frame(
            [s EXCEPT !.filtered_image = Copy(s.edited_image, BufLoc.filtered_image)],
            "adjust")
    ELSE s

\* FilterTools.setup_filter_tools()
setup_filter_tools(s) == refresh_side_frame(s, "filter")

\* BlurTools.setup_blur_tools()
setup_blur_tools(s) == refresh_side_frame(s, "blur")

\* TransformTools.setup_rotation_tools()
setup_rotation_tools(s) == refresh_side_frame(s, "rotate")

\* TransformTools.setup_flip_tools()
setup_flip_tools(s) == refresh_side_frame(s, "flip")

\* DrawingTools.choose_color() and TextTools.choose_color(): the colour the
\* chooser returns becomes color_code, unless the chooser was cancelled.
choose_color(s, color) ==
    IF color # "none"
    THEN [s EXCEPT !.color_code = color]
    ELSE s

\* DrawingTools.draw(event): a line on the canvas with fill color_code[-1],
\* then cv2.line writes the segment into filtered_image itself with colour
\* (0, 0, 255), leaving content p; with no preview cv2.line raises.
draw(s, p) ==
    LET s0 == [s EXCEPT !.stroke.overlay = s.color_code]
    IN IF s.filtered_image # None
       THEN [WriteInPlace(s0, s.filtered_image, p) EXCEPT !.stroke.preview = "red"]
       ELSE s0

\* The content cv2.putText leaves in the array it is given: the text
\* (text_extracted, "Sample Text" unless the entry holds another) written
\* over the content found, which is another content.
putText == [a |-> "b", b |-> "a"]

\* start_text_placement without the copy of edited_image: cv2.putText writes
\* into the preview it finds.
start_text_placement_on_preview(s) ==
    IF s.edited_image # None
    THEN canvas_delete_all(
            WriteInPlace(s, s.filtered_image, putText[s.filtered_image.px]))
    ELSE s

\* TextTools.start_text_placement(event): a copy of edited_image, and
\* cv2.putText writes into that copy and returns it.  With no image loaded
\* the copy raises.
start_text_placement(s) ==
    IF s.edited_image # None
    THEN LET s1 == [s EXCEPT !.filtered_image = Copy(s.edited_image, BufLoc.filtered_image)]
         IN canvas_delete_all(
               WriteInPlace(s1, s1.filtered_image, putText[s1.filtered_image.px]))
    ELSE s

\* abs()
Abs(n) == IF n < 0 THEN -n ELSE n

\* CropTools._reset_crop_state(): the fields of the selection, rectangle_id
\* among them.
_reset_crop_state(s) == [s EXCEPT !.crop = NoCrop, !.canvas = Unreferenced(@)]

\* _validate_crop_size accepting a selection as soon as its width reaches
\* MIN_CROP_SIZE.
_validate_crop_size_width_only(s) ==
    Abs(s.crop.crop_end_x - s.crop.crop_start_x) >= MIN_CROP_SIZE

\* CropTools._validate_crop_size()
_validate_crop_size(s) ==
    LET width  == Abs(s.crop.crop_end_x - s.crop.crop_start_x)
        height == Abs(s.crop.crop_end_y - s.crop.crop_start_y)
    IN width >= MIN_CROP_SIZE /\ height >= MIN_CROP_SIZE

\* CropTools.start_crop(event)
start_crop(s, event) ==
    [s EXCEPT !.crop.crop_start_x = event.x,
              !.crop.crop_start_y = event.y,
              !.crop.rectangle_id = 0,
              !.canvas            = Unreferenced(@)]

\* CropTools.update_crop(event): the rectangle rectangle_id refers to is
\* deleted; canvas.create_rectangle returns the id of the new item, which is
\* not 0.
update_crop(s, event) ==
    [s EXCEPT !.crop.crop_end_x   = event.x,
              !.crop.crop_end_y   = event.y,
              !.crop.rectangle_id = 1,
              !.canvas            = @ \cup {"rectangle_id"}]

\* end_crop slicing into edited_image instead of filtered_image.
end_crop_on_committed(s, p) ==
    IF _validate_crop_size(s) /\ s.edited_image # None
    THEN _reset_crop_state(canvas_delete_all(
            [s EXCEPT !.edited_image = NewArray(p, BufLoc.edited_image)]))
    ELSE _reset_crop_state(s)

\* CropTools.end_crop(event): the selection is the one start_crop and
\* update_crop left, the event's position is not read.  A selection that
\* _validate_crop_size rejects returns; an accepted one makes filtered_image
\* a copy of a slice of edited_image, with content p, deletes the rectangle
\* and displays the preview.  With no image loaded the slice raises, and so
\* does the copy in the except branch.  The finally branch resets the
\* selection on every path.
end_crop(s, p) ==
    IF _validate_crop_size(s) /\ s.edited_image # None
    THEN _reset_crop_state(canvas_delete_all(
            [s EXCEPT !.filtered_image = NewArray(p, BufLoc.filtered_image)]))
    ELSE _reset_crop_state(s)

\* CropTools.cancel_crop(event): the rectangle is deleted and the selection
\* reset, then comes the copy, which raises AttributeError when no image is
\* loaded, and the display.
cancel_crop(s) ==
    LET s0 == _reset_crop_state(
                 [s EXCEPT !.canvas = IF s.crop.rectangle_id # 0
                                      THEN @ \ {"rectangle_id"}
                                      ELSE @])
    IN IF s.edited_image # None
       THEN canvas_delete_all(
               [s0 EXCEPT !.filtered_image = Copy(s.edited_image, BufLoc.filtered_image)])
       ELSE s0

\* The content cv2 returns for each filter on each content: bitwise_not
\* exchanges the two contents, the conversion to grey leaves "a" whatever it
\* is given.
FilterResult ==
    [negative |-> [a |-> "b", b |-> "a"],
     bw       |-> [a |-> "a", b |-> "a"]]

\* The filter handlers giving cv2 filtered_image instead of edited_image.
toggle_filter_on_preview(s, f) ==
    IF s.edited_image = None
    THEN s
    ELSE IF ~s.filter_states[f]
         THEN canvas_delete_all(
                 [s EXCEPT !.filtered_image  = NewArray(FilterResult[f][s.filtered_image.px],
                                                        BufLoc.filtered_image),
                           !.filter_states[f] = TRUE])
         ELSE canvas_delete_all(
                 [s EXCEPT !.filtered_image  = Copy(s.edited_image, BufLoc.filtered_image),
                           !.filter_states[f] = FALSE])

\* FilterTools.negative_filter() and its eight siblings, for filter f: with
\* the flag of f false the cv2 call on edited_image returns a new array and
\* the flag becomes true; with the flag true filtered_image becomes a copy
\* of edited_image and the flag false.  With no image loaded both raise.
toggle_filter(s, f) ==
    IF s.edited_image = None
    THEN s
    ELSE IF ~s.filter_states[f]
         THEN canvas_delete_all(
                 [s EXCEPT !.filtered_image  = NewArray(FilterResult[f][s.edited_image.px],
                                                        BufLoc.filtered_image),
                           !.filter_states[f] = TRUE])
         ELSE canvas_delete_all(
                 [s EXCEPT !.filtered_image  = Copy(s.edited_image, BufLoc.filtered_image),
                           !.filter_states[f] = FALSE])

\* BlurTools.apply_average_blur / apply_gaussian_blur / apply_median_blur:
\* a kernel above 1 (blurred) makes filtered_image the cv2 result, with
\* content p, otherwise a copy of edited_image.
apply_blur(s, blurred, p) ==
    IF s.edited_image = None
    THEN s
    ELSE IF blurred
         THEN canvas_delete_all([s EXCEPT !.filtered_image = NewArray(p, BufLoc.filtered_image)])
         ELSE canvas_delete_all([s EXCEPT !.filtered_image = Copy(s.edited_image, BufLoc.filtered_image)])

\* AdjustTools.apply_brightness / apply_saturation: the cv2 result on a copy
\* of edited_image, with content p; on cv2.error (failed) a copy of
\* edited_image.
apply_adjust(s, failed, p) ==
    IF s.edited_image = None
    THEN s
    ELSE IF failed
         THEN canvas_delete_all([s EXCEPT !.filtered_image = Copy(s.edited_image, BufLoc.filtered_image)])
         ELSE canvas_delete_all([s EXCEPT !.filtered_image = NewArray(p, BufLoc.filtered_image)])

\* TransformTools.rotate_left / rotate_right / flip_vertical /
\* flip_horizontal, for the buffers: cv2.rotate and cv2.flip of
\* filtered_image return a new array with content p; with no preview they
\* raise and nothing changes.  The fields that track the rotation and the
\* flips, which only the labels of the panel read, are followed by the four
\* handlers below.
transform(s, p) ==
    IF s.filtered_image # None
    THEN canvas_delete_all([s EXCEPT !.filtered_image = NewArray(p, BufLoc.filtered_image)])
    ELSE s

\* TransformTools.rotate_left()
rotate_left(s, p) ==
    IF s.filtered_image # None
    THEN [transform(s, p) EXCEPT !.transforms.current_rotation = (@ - 90) % 360]
    ELSE s

\* TransformTools.rotate_right()
rotate_right(s, p) ==
    IF s.filtered_image # None
    THEN [transform(s, p) EXCEPT !.transforms.current_rotation = (@ + 90) % 360]
    ELSE s

\* TransformTools.flip_vertical()
flip_vertical(s, p) ==
    IF s.filtered_image # None
    THEN [transform(s, p) EXCEPT !.transforms.is_flipped_v = ~@]
    ELSE s

\* TransformTools.flip_horizontal()
flip_horizontal(s, p) ==
    IF s.filtered_image # None
    THEN [transform(s, p) EXCEPT !.transforms.is_flipped_h = ~@]
    ELSE s

\* TransformTools.reset_transforms(), which no handler calls.
reset_transforms(s) == [s EXCEPT !.transforms = NoTransforms]

(* ---------------------------------------------------------------------- *)
(* Geometry: display size, view and crop slice                             *)
(* ---------------------------------------------------------------------- *)

\* The integer n / d cut towards zero, for d > 0.
Trunc(n, d) == IF n >= 0 THEN n \div d ELSE -((-n) \div d)

Min(a, b) == IF a < b THEN a ELSE b
Max(a, b) == IF a > b THEN a ELSE b

\* The values int(k * (n / d)) can take, n / d and the product being taken in
\* floating point: the exact quotient k * n / d cut towards zero and, when
\* that quotient is a whole number other than 0 while n / d is not whole, also
\* the next integer towards zero (the rounded product can fall short of it).
IntOf(k, n, d) ==
    LET q == Trunc(k * n, d)
    IN IF n % d = 0 \/ (k * n) % d # 0 \/ q = 0
       THEN {q}
       ELSE {q, IF q > 0 THEN q - 1 ELSE q + 1}

\* ImageUtils._calculate_display_dimensions(width, height): the sizes it can
\* return.
_calculate_display_dimensions(width, height) ==
    LET max_width  == default_width - padding
        max_height == default_height - padding
    IN IF height > max_height \/ width > max_width
       THEN IF height < width
            THEN {[new_width |-> max_width, new_height |-> h] :
                     h \in IntOf(max_width, height, width)}
            ELSE {[new_width |-> w, new_height |-> max_height] :
                     w \in IntOf(max_height, width, height)}
       ELSE {[new_width |-> width, new_height |-> height]}

\* ImageUtils.display_image(image), for the view it leaves: ratio, x_offset
\* and y_offset; display_image_at for one of the display sizes
\* _calculate_display_dimensions can return.  height / new_height raises ZeroDivisionError when
\* new_height is 0, and cv2.resize raises when new_width is 0, after the
\* ratio has been assigned; display_image catches both and returns.
display_image_at(view, shape, d) ==
    LET canvas_width  == Max(d.new_width + padding, default_width)
        canvas_height == Max(d.new_height + padding, default_height)
        x_center      == canvas_width \div 2
        y_center      == canvas_height \div 2
    IN IF d.new_height = 0
       THEN view
       ELSE IF d.new_width = 0
       THEN [view EXCEPT !.ratio = [num |-> shape.height, den |-> d.new_height]]
       ELSE [ratio    |-> [num |-> shape.height, den |-> d.new_height],
             x_offset |-> x_center - d.new_width \div 2,
             y_offset |-> y_center - d.new_height \div 2]

display_image(view, shape) ==
    {display_image_at(view, shape, d) :
        d \in _calculate_display_dimensions(shape.width, shape.height)}

\* An array with no row or no column, which a slice can be.
IsEmpty(shape) == shape.height = 0 \/ shape.width = 0

\* ImageUtils.display_image(image) in a session that holds the view and
\* shown, the shape of the last image the whole view was computed from.
\* cv2.cvtColor raises on an empty array before anything is assigned; a
\* display size with a 0 raises after the ratio or nothing has been assigned,
\* and shown stays.
display_image_in(session, shape) ==
    IF IsEmpty(shape)
    THEN {session}
    ELSE {[session EXCEPT !.view  = display_image_at(session.view, shape, d),
                          !.shown = IF d.new_height = 0 \/ d.new_width = 0
                                    THEN @ ELSE shape] :
             d \in _calculate_display_dimensions(shape.width, shape.height)}

\* The number of indices of slice(start, stop) on an axis of n elements
\* (numpy basic slicing: negative indices count from the end, indices
\* beyond the axis are cut to it).
SliceLen(start, stop, n) ==
    LET Index(i) == IF i < 0 THEN Max(i + n, 0) ELSE Min(i, n)
    IN Max(Index(stop) - Index(start), 0)

\* int((v - offset) * ratio): the image coordinates a canvas coordinate can
\* be taken to.
ToImage(v, offset, ratio) == IntOf(v - offset, ratio.num, ratio.den)

\* The slices of end_crop without the cut of the corners to the image.
end_crop_slice_unclamped(c, view, shape) ==
    {[start_x |-> sx, start_y |-> sy, end_x |-> ex, end_y |-> ey,
      shape   |-> [height |-> SliceLen(sy, ey, shape.height),
                   width  |-> SliceLen(sx, ex, shape.width)]] :
         sx \in ToImage(Min(c.crop_start_x, c.crop_end_x), view.x_offset, view.ratio),
         sy \in ToImage(Min(c.crop_start_y, c.crop_end_y), view.y_offset, view.ratio),
         ex \in ToImage(Max(c.crop_start_x, c.crop_end_x), view.x_offset, view.ratio),
         ey \in ToImage(Max(c.crop_start_y, c.crop_end_y), view.y_offset, view.ratio)}

\* CropTools.end_crop(event), for the slice it takes of an edited_image of
\* the given shape: the corners in image coordinates, cut to the image, and
\* the shape of edited_image[start_y:end_y, start_x:end_x].
end_crop_slice(c, view, shape) ==
    {LET start_x == Max(0, Min(sx, shape.width))
         start_y == Max(0, Min(sy, shape.height))
         end_x   == Max(0, Min(ex, shape.width))
         end_y   == Max(0, Min(ey, shape.height))
     IN [start_x |-> start_x, start_y |-> start_y, end_x |-> end_x, end_y |-> end_y,
         shape   |-> [height |-> SliceLen(start_y, end_y, shape.height),
                      width  |-> SliceLen(start_x, end_x, shape.width)]] :
         sx \in ToImage(Min(c.crop_start_x, c.crop_end_x), view.x_offset, view.ratio),
         sy \in ToImage(Min(c.crop_start_y, c.crop_end_y), view.y_offset, view.ratio),
         ex \in ToImage(Max(c.crop_start_x, c.crop_end_x), view.x_offset, view.ratio),
         ey \in ToImage(Max(c.crop_start_y, c.crop_end_y), view.y_offset, view.ratio)}

\* The values int(k / (n / d)) can take, n / d and the quotient being taken
\* in floating point: the exact quotient k * d / n cut towards zero and, when
\* that quotient is a whole number other than 0 while n / d is not whole, also
\* the next integer towards zero.
IntQuot(k, n, d) ==
    LET q == Trunc(k * d, n)
    IN IF n % d = 0 \/ (k * d) % n # 0 \/ q = 0
       THEN {q}
       ELSE {q, IF q > 0 THEN q - 1 ELSE q + 1}

\* ImageUtils.get_canvas_coordinates(image_x, image_y), under a view.
get_canvas_coordinates(view, image_x, image_y) ==
    {[x |-> cx + view.x_offset, y |-> cy + view.y_offset] :
        cx \in IntQuot(image_x, view.ratio.num, view.ratio.den),
        cy \in IntQuot(image_y, view.ratio.num, view.ratio.den)}

\* ImageUtils.get_image_coordinates(canvas_x, canvas_y), under a view.
get_image_coordinates(view, canvas_x, canvas_y) ==
    {[x |-> ix, y |-> iy] :
        ix \in ToImage(canvas_x, view.x_offset, view.ratio),
        iy \in ToImage(canvas_y, view.y_offset, view.ratio)}

\* CropTools.end_crop(event): the image point it computes for a corner of the
\* selection, int((x - x_offset) * ratio) on each axis.
end_crop_point(view, corner) ==
    {[x |-> ix, y |-> iy] :
        ix \in ToImage(corner.x, view.x_offset, view.ratio),
        iy \in ToImage(corner.y, view.y_offset, view.ratio)}

\* DrawingTools.draw(event): the image point it gives cv2.line for a canvas
\* position, int(x * ratio) on each axis.
draw_point(view, event) ==
    {[x |-> ix, y |-> iy] :
        ix \in IntOf(event.x, view.ratio.num, view.ratio.den),
        iy \in IntOf(event.y, view.ratio.num, view.ratio.den)}

\* TextTools.start_text_placement(event): the image point it gives
\* cv2.putText, int(event.x * ratio) on each axis.
text_point(view, event) ==
    {[x |-> ix, y |-> iy] :
        ix \in IntOf(event.x, view.ratio.num, view.ratio.den),
        iy \in IntOf(event.y, view.ratio.num, view.ratio.den)}

(* ---------------------------------------------------------------------- *)
(* Canvas event dispatch                                                   *)
(* ---------------------------------------------------------------------- *)

\* The tool whose setup binds each handler on the canvas.
Owner ==
    [start_draw           |-> "draw",
     draw                 |-> "draw",
     start_crop           |-> "crop",
     update_crop          |-> "crop",
     end_crop             |-> "crop",
     cancel_crop          |-> "crop",
     start_text_placement |-> "text"]

\* The entries of the tools: the setup_* methods behind the tool buttons.
SetupOps ==
    {"setup_drawing_tools", "setup_crop_tools", "setup_text_tools",
     "setup_filter_tools", "setup_blur_tools", "setup_adjust_tools",
     "setup_rotation_tools", "setup_flip_tools"}

\* Tk runs the most specific binding that matches: a press or release of
\* button 1 goes to the <...-1> binding when there is one.
PressHandler(s, button) ==
    IF button = 1 /\ s.bindings["<ButtonPress-1>"] # "unbound"
    THEN s.bindings["<ButtonPress-1>"]
    ELSE s.bindings["<ButtonPress>"]

ReleaseHandler(s) ==
    IF s.bindings["<ButtonRelease-1>"] # "unbound"
    THEN s.bindings["<ButtonRelease-1>"]
    ELSE s.bindings["<ButtonRelease>"]

(* ---------------------------------------------------------------------- *)
(* Specification                                                           *)
(* ---------------------------------------------------------------------- *)

\* The handler's result becomes the next state.  last_op records the handler
\* that ran, what it found (the history cursor and length, the contents of
\* edited_image and filtered_image, the crop selection) and what it did
\* besides assigning (chain, stroke, written).
Becomes(s, op) ==
    /\ original_image'   = s.original_image
    /\ edited_image'     = s.edited_image
    /\ filtered_image'   = s.filtered_image
    /\ history'          = s.history
    /\ history_position' = s.history_position
    /\ filter_states'    = s.filter_states
    /\ active_filters'   = s.active_filters
    /\ bindings'         = s.bindings
    /\ panel'            = s.panel
    /\ crop'             = s.crop
    /\ canvas'           = s.canvas
    /\ color_code'       = s.color_code
    /\ transforms'       = s.transforms
    /\ probe'            = probe
    /\ last_op'          = [op           |-> op,
                             position     |-> history_position,
                             total_states |-> Len(history),
                             edited       |-> edited_image.px,
                             filtered     |-> filtered_image.px,
                             crop         |-> crop,
                             chain        |-> s.chain,
                             stroke       |-> s.stroke,
                             written      |-> s.written]

\* ImageEditor.__init__ and the constructors of the tools.
Init ==
    /\ original_image   = None
    /\ edited_image     = None
    /\ filtered_image   = None
    /\ history          = <<>>
    /\ history_position = -1
    /\ filter_states    = [f \in Filters |-> FALSE]
    /\ active_filters   = [f \in Filters |-> FALSE]
    /\ bindings         = [e \in EventSequences |-> "unbound"]
    /\ panel            = "none"
    /\ crop             = NoCrop
    /\ canvas           = {}
    /\ color_code       = DEFAULT_COLOR
    /\ transforms       = NoTransforms
    /\ probe            = NoProbe
    /\ last_op          = [op |-> "init", position |-> -1, total_states |-> 0,
                            edited |-> None.px, filtered |-> None.px,
                            crop |-> NoCrop, chain |-> <<>>,
                            stroke |-> NoStroke, written |-> NotWritten]

\* The main menu and the footer buttons.
\* Open: a file with a supported extension that cv2.imread decodes.
Upload ==
    \E filename \in Filenames, p \in Pixels :
        /\ _validate_file_format(filename)
        /\ Becomes(upload_image(Editor, filename, p), "load")

\* Open: the dialog is cancelled, the extension is not supported, or
\* cv2.imread, called on a supported file name only, returns None.
UploadFailed ==
    \E filename \in Filenames :
      \E p \in IF _validate_file_format(filename) THEN Decoded ELSE {None.px} :
        /\ ~(_validate_file_format(filename) /\ p # None.px)
        /\ Becomes(upload_image(Editor, filename, p), "load_failed")

\* Save: the dialog answers one of names, and cv2.imwrite, called when a file
\* name was given, returns one of results.
SaveAs(names, results) ==
    \E filename \in names :
      \E success \in IF filename = "" THEN {FALSE} ELSE results :
        Becomes(save_image(Editor, filename, success), "save")

Apply        == Becomes(apply_changes(Editor), "apply")
Cancel       == Becomes(cancel_changes(Editor), "cancel")
Revert       == Becomes(revert_all(Editor), "revert")

\* The public history operations of ActionHandlers.
Undo         == Becomes(undo(Editor), "undo")
Redo         == Becomes(redo(Editor), "redo")
ClearHistory == Becomes(clear_history(Editor), "clear_history")

\* apply_changes while the history it leaves holds at most MaxDepth snapshots.
BoundedApply == history_position + 2 <= MaxDepth /\ Apply

\* The first load of a session.
FirstUpload == original_image = None /\ Upload

\* apply_changes with no redo state in the history: no undo has moved the
\* cursor since the last apply.
ApplyOnTop == history_position = Len(history) - 1 /\ BoundedApply

\* Apply, Cancel and Revert with any of their allocations raising MemoryError.
FaultyApply ==
    /\ history_position + 2 <= MaxDepth
    /\ \E fault \in Faults : Becomes(apply_changes_with(Editor, fault), "apply")

FaultyCancel == \E fault \in Faults : Becomes(cancel_changes_with(Editor, fault), "cancel")

FaultyRevert == \E fault \in Faults : Becomes(revert_all_with(Editor, fault), "revert")

\* The tool buttons of the main menu.
SetupDraw    == Becomes(setup_drawing_tools(Editor), "setup_drawing_tools")
SetupCrop    == Becomes(setup_crop_tools(Editor), "setup_crop_tools")
SetupText    == Becomes(setup_text_tools(Editor), "setup_text_tools")
SetupFilter  == Becomes(setup_filter_tools(Editor), "setup_filter_tools")
SetupBlur    == Becomes(setup_blur_tools(Editor), "setup_blur_tools")
SetupAdjust  == Becomes(setup_adjust_tools(Editor), "setup_adjust_tools")
SetupRotate  == Becomes(setup_rotation_tools(Editor), "setup_rotation_tools")
SetupFlip    == Becomes(setup_flip_tools(Editor), "setup_flip_tools")

\* A mouse button goes down on the canvas, at one of the positions: the
\* handler bound for it runs.
PressStartDraw(positions) ==
    \E button \in {1, 2}, event \in positions :
        /\ PressHandler(Editor, button) = "start_draw"
        /\ Becomes(Editor, "start_draw")

PressStartCrop(positions) ==
    \E button \in {1, 2}, event \in positions :
        /\ PressHandler(Editor, button) = "start_crop"
        /\ Becomes(start_crop(Editor, event), "start_crop")

PressStartText(positions) ==
    \E button \in {1, 2}, event \in positions :
        /\ PressHandler(Editor, button) = "start_text_placement"
        /\ Becomes(start_text_placement(Editor), "start_text_placement")

PressAt(positions) ==
    PressStartDraw(positions) \/ PressStartCrop(positions) \/ PressStartText(positions)

\* The pointer moves with button 1 down, to one of the positions.
MotionDraw(positions) ==
    \E event \in positions :
        /\ bindings["<B1-Motion>"] = "draw"
        /\ \E p \in Pixels : Becomes(draw(Editor, p), "draw")

MotionUpdateCrop(positions) ==
    \E event \in positions :
        /\ bindings["<B1-Motion>"] = "update_crop"
        /\ Becomes(update_crop(Editor, event), "update_crop")

MotionAt(positions) == MotionDraw(positions) \/ MotionUpdateCrop(positions)

Press  == PressAt(SpecPoints)
Motion == MotionAt(SpecPoints)

\* Button 1 goes up.
Release ==
    /\ ReleaseHandler(Editor) = "end_crop"
    /\ \E p \in Pixels : Becomes(end_crop(Editor, p), "end_crop")

\* The Escape key on the canvas.
Escape ==
    /\ bindings["<Escape>"] = "cancel_crop"
    /\ Becomes(cancel_crop(Editor), "cancel_crop")

\* The widgets of the side panel of the selected tool.
FilterButton ==
    /\ panel = "filter"
    /\ \E f \in Filters : Becomes(toggle_filter(Editor, f), "toggle_filter")

\* The colour button of the draw panel and of the text panel.
ChooseColor ==
    /\ panel \in {"draw", "text"}
    /\ \E color \in Colours \cup {"none"} : Becomes(choose_color(Editor, color), "choose_color")

BlurSlider ==
    /\ panel = "blur"
    /\ \E blurred \in BOOLEAN, p \in Pixels : Becomes(apply_blur(Editor, blurred, p), "apply_blur")

AdjustSlider ==
    /\ panel = "adjust"
    /\ \E failed \in BOOLEAN, p \in Pixels : Becomes(apply_adjust(Editor, failed, p), "apply_adjust")

RotateButton ==
    /\ panel = "rotate"
    /\ \E p \in Pixels : Becomes(transform(Editor, p), "rotate")

FlipButton ==
    /\ panel = "flip"
    /\ \E p \in Pixels : Becomes(transform(Editor, p), "flip")

\* The four buttons of the rotation panel and of the flip panel, with the
\* fields that track what they did.
RotateLeft ==
    /\ panel = "rotate"
    /\ \E p \in Pixels : Becomes(rotate_left(Editor, p), "rotate_left")

RotateRight ==
    /\ panel = "rotate"
    /\ \E p \in Pixels : Becomes(rotate_right(Editor, p), "rotate_right")

FlipVertical ==
    /\ panel = "flip"
    /\ \E p \in Pixels : Becomes(flip_vertical(Editor, p), "flip_vertical")

FlipHorizontal ==
    /\ panel = "flip"
    /\ \E p \in Pixels : Becomes(flip_horizontal(Editor, p), "flip_horizontal")

ToolOp ==
    \/ SetupDraw \/ SetupCrop \/ SetupText \/ SetupFilter
    \/ SetupBlur \/ SetupAdjust \/ SetupRotate \/ SetupFlip
    \/ Press \/ Motion \/ Release \/ Escape
    \/ FilterButton \/ BlurSlider \/ AdjustSlider \/ RotateButton \/ FlipButton

Next ==
    \/ Upload \/ UploadFailed \/ SaveAs(supported_formats, {TRUE})
    \/ BoundedApply \/ Cancel \/ Revert
    \/ Undo \/ Redo \/ ClearHistory
    \/ ToolOp

Spec == Init /\ [][Next]_vars

NextHistory ==
    \/ Upload \/ Apply \/ Cancel \/ Revert
    \/ Undo \/ Redo \/ ClearHistory

SpecHistory == Init /\ [][NextHistory]_vars

\* Open and Save with every answer of the dialogs and of cv2.imwrite, with
\* previews of the filters, commits and undos between them.
NextFile ==
    \/ Upload \/ UploadFailed \/ SaveAs(Filenames, BOOLEAN)
    \/ BoundedApply \/ Cancel \/ Revert \/ Undo \/ Redo
    \/ SetupFilter \/ FilterButton

SpecFile == Init /\ [][NextFile]_vars

\* The crop tool: selections between any two of Points.
NextCrop ==
    \/ Upload \/ BoundedApply \/ Cancel
    \/ SetupCrop \/ PressStartCrop(Points) \/ MotionUpdateCrop(Points)
    \/ Release \/ Escape

SpecCrop == Init /\ [][NextCrop]_vars

\* The draw tool with the colour chooser.
NextDraw ==
    \/ Upload \/ BoundedApply \/ Cancel \/ Revert
    \/ SetupDraw \/ ChooseColor
    \/ PressStartDraw(SpecPoints) \/ MotionDraw(SpecPoints)

SpecDraw == Init /\ [][NextDraw]_vars

\* Apply, Cancel and Revert under allocation failures, after loads, rotations
\* and undos.
NextFault ==
    \/ Upload \/ SetupRotate \/ RotateButton \/ Undo
    \/ FaultyApply \/ FaultyCancel \/ FaultyRevert

SpecFault == Init /\ [][NextFault]_vars

\* One load, then rotations and applies, then undos: no apply comes after an
\* undo that moved the cursor.
NextUndo ==
    \/ FirstUpload \/ SetupRotate \/ RotateButton
    \/ ApplyOnTop \/ Undo

SpecUndo == Init /\ [][NextUndo]_vars

\* The rotation panel and the flip panel with the fields that track the
\* rotation and the flips, between loads, commits, cancels and reverts.
NextTransform ==
    \/ Upload \/ BoundedApply \/ Cancel \/ Revert
    \/ SetupRotate \/ SetupFlip
    \/ RotateLeft \/ RotateRight \/ FlipVertical \/ FlipHorizontal

SpecTransform == Init /\ [][NextTransform]_vars

\* The geometry functions, each applied once to inputs of its own: the editor
\* stays as constructed, probe holds the function applied, its inputs and
\* its result.
EditorVars == <<original_image, edited_image, filtered_image, history,
                history_position, filter_states, active_filters, bindings,
                panel, crop, canvas, color_code, transforms, last_op>>

\* _calculate_display_dimensions on an image of any two Sides.
Layout ==
    /\ probe = NoProbe
    /\ \E width \in Sides, height \in Sides :
          \E result \in _calculate_display_dimensions(width, height) :
              probe' = [fn     |-> "_calculate_display_dimensions",
                        width  |-> width,
                        height |-> height,
                        result |-> result]
    /\ UNCHANGED EditorVars

\* The slice end_crop takes for an accepted selection between two Corners,
\* of a committed image of one of Shapes, the view being the one left by the
\* display of an image of one of Shapes.
CropSlice ==
    /\ probe = NoProbe
    /\ \E committed \in Shapes, shown \in Shapes, start \in Corners, end \in Corners :
          LET c == [NoCrop EXCEPT !.crop_start_x = start.x, !.crop_start_y = start.y,
                                  !.crop_end_x   = end.x,   !.crop_end_y   = end.y]
          IN /\ _validate_crop_size([crop |-> c])
             /\ \E view \in display_image(InitView, shown) :
                   \E result \in end_crop_slice(c, view, committed) :
                       probe' = [fn        |-> "end_crop",
                                 crop      |-> c,
                                 view      |-> view,
                                 committed |-> committed,
                                 result    |-> result]
    /\ UNCHANGED EditorVars

\* An image point of coordinates up to MaxCoord taken to the canvas by
\* get_canvas_coordinates and back by get_image_coordinates, the view being
\* the one left by the display of an image of one of Shapes.
RoundTrip ==
    /\ probe = NoProbe
    /\ \E shown \in Shapes, image_x \in 0..MaxCoord, image_y \in 0..MaxCoord :
          \E view \in display_image(InitView, shown) :
              \E on_canvas \in get_canvas_coordinates(view, image_x, image_y) :
                  \E result \in get_image_coordinates(view, on_canvas.x, on_canvas.y) :
                      probe' = [fn     |-> "round_trip",
                                view   |-> view,
                                image  |-> [x |-> image_x, y |-> image_y],
                                canvas |-> on_canvas,
                                result |-> result]
    /\ UNCHANGED EditorVars

\* The image point each pointer-driven tool computes for one canvas position
\* of Corners under one view, next to the one get_image_coordinates computes.
\* int() of the same floating-point product is the same number: end_crop
\* evaluates the expression of get_image_coordinates, start_text_placement
\* the expression of draw, and the two expressions are the same on an axis
\* whose offset is 0.
ToolPoints ==
    /\ probe = NoProbe
    /\ \E shown \in Shapes, event \in Corners :
          \E view \in display_image(InitView, shown) :
              \E mapped \in get_image_coordinates(view, event.x, event.y),
                 cropped \in end_crop_point(view, event),
                 drawn \in draw_point(view, event),
                 written \in text_point(view, event) :
                  /\ cropped = mapped
                  /\ written = drawn
                  /\ view.x_offset = 0 => drawn.x = mapped.x
                  /\ view.y_offset = 0 => drawn.y = mapped.y
                  /\ probe' = [fn     |-> "tool_points",
                               view   |-> view,
                               event  |-> event,
                               mapper |-> mapped,
                               crop   |-> cropped,
                               draw   |-> drawn,
                               text   |-> written]
    /\ UNCHANGED EditorVars

\* The thickness of twice the whole part of the ratio.
line_thickness_of_whole_ratio(view) ==
    {2 * q : q \in IntOf(1, view.ratio.num, view.ratio.den)}

\* DrawingTools.draw(event): the thickness it passes to cv2.line,
\* int(ratio * 2).
line_thickness(view) == IntOf(2, view.ratio.num, view.ratio.den)

\* A stroke on an image of width x height that display_image has shown
\* from the initial view.
Thickness ==
    /\ probe = NoProbe
    /\ \E width \in Sides, height \in Sides :
          \E view \in display_image(InitView, [height |-> height, width |-> width]) :
              \E thickness \in line_thickness(view) :
                  probe' = [fn        |-> "line_thickness",
                            width     |-> width,
                            height    |-> height,
                            view      |-> view,
                            thickness |-> thickness]
    /\ UNCHANGED EditorVars

\* The crop tool at the level of image dimensions.  probe holds the session:
\* the shapes of edited_image and filtered_image, the view, the shape shown,
\* whether the handlers of the crop tool are bound on the canvas and the
\* number of releases so far.
\* Open: an image of one of Shapes is loaded and displayed.
ViewLoad ==
    /\ probe = NoProbe
    /\ \E shape \in Shapes :
          \E session \in display_image_in([fn             |-> "crop_session",
                                           op             |-> "load",
                                           edited_image   |-> shape,
                                           filtered_image |-> shape,
                                           view           |-> InitView,
                                           shown          |-> [height |-> 0, width |-> 0],
                                           bound          |-> FALSE,
                                           releases       |-> 0], shape) :
              probe' = session
    /\ UNCHANGED EditorVars

\* The crop button: filtered_image becomes a copy of edited_image, and
\* refresh_side_frame displays edited_image.
ViewSetupCrop ==
    /\ probe.fn = "crop_session"
    /\ \E session \in display_image_in(
                         [probe EXCEPT !.op = "setup_crop_tools",
                                       !.bound = TRUE,
                                       !.filtered_image = probe.edited_image],
                         probe.edited_image) :
          probe' = session
    /\ UNCHANGED EditorVars

\* A press, a drag and a release between two Corners that
\* _validate_crop_size accepts: filtered_image becomes the slice of
\* edited_image, which is displayed.
ViewEndCrop ==
    /\ probe.fn = "crop_session"
    /\ probe.bound
    /\ probe.releases < MaxReleases
    /\ \E start \in Corners, end \in Corners :
          LET c == [NoCrop EXCEPT !.crop_start_x = start.x, !.crop_start_y = start.y,
                                  !.crop_end_x   = end.x,   !.crop_end_y   = end.y]
          IN /\ _validate_crop_size([crop |-> c])
             /\ \E result \in end_crop_slice(c, probe.view, probe.edited_image) :
                   \E session \in display_image_in(
                                     [probe EXCEPT !.op = "end_crop",
                                                   !.filtered_image = result.shape,
                                                   !.releases = @ + 1],
                                     result.shape) :
                       probe' = session
    /\ UNCHANGED EditorVars

\* Escape: filtered_image becomes a copy of edited_image and is displayed.
ViewCancelCrop ==
    /\ probe.fn = "crop_session"
    /\ probe.bound
    /\ \E session \in display_image_in(
                         [probe EXCEPT !.op = "cancel_crop",
                                       !.filtered_image = probe.edited_image],
                         probe.edited_image) :
          probe' = session
    /\ UNCHANGED EditorVars

NextViewport == ViewLoad \/ ViewSetupCrop \/ ViewEndCrop \/ ViewCancelCrop

SpecViewport == Init /\ [][NextViewport]_vars

NextGeometry == Layout \/ CropSlice \/ RoundTrip \/ ToolPoints \/ Thickness

SpecGeometry == Init /\ [][NextGeometry]_vars

(* ---------------------------------------------------------------------- *)
(* Properties                                                              *)
(* ---------------------------------------------------------------------- *)

\* Every array held by a buffer or by the history.
LiveArrays ==
    {x \in {original_image, edited_image, filtered_image} : x # None}
        \cup {history[i] : i \in 1..Len(history)}

\* The number of names that hold an array.
LiveNames ==
    (IF original_image # None THEN 1 ELSE 0)
        + (IF edited_image # None THEN 1 ELSE 0)
        + (IF filtered_image # None THEN 1 ELSE 0)
        + Len(history)

\* C1: after every apply_changes() that found a preview, the history holds at
\* most max_history snapshots and the cursor is on the last one.
C1_ApplyLeavesCursorOnTop ==
    (last_op.op = "apply" /\ filtered_image # None)
        => /\ Len(history) <= max_history
           /\ history_position = Len(history) - 1

\* An apply that found a full history with the cursor below its top.
C1_Witness ==
    /\ last_op.op = "apply"
    /\ last_op.total_states = max_history
    /\ last_op.position < max_history - 1
    /\ filtered_image # None

\* C2: in every reachable state -1 <= history_position <= len(history) - 1.
C2_CursorInRange ==
    /\ -1 <= history_position
    /\ history_position <= Len(history) - 1

\* A redo that moved the cursor onto the last entry of a full history.
C2_Witness ==
    /\ last_op.op = "redo"
    /\ last_op.position = max_history - 2
    /\ history_position = max_history - 1
    /\ Len(history) = max_history

\* C3: a push made with the cursor p below the top of the history keeps the
\* entries up to p, puts the new snapshot right after them as the last
\* entry, moves the cursor onto it and leaves nothing to redo.
C3_PushDiscardsRedoBranch ==
    [][(/\ last_op'.op = "apply"
        /\ filtered_image # None
        /\ history_position < Len(history) - 1)
          => LET p == history_position
             IN /\ Len(history') = p + 2
                /\ \A i \in 1..(p + 1) : history'[i] = history[i]
                /\ history'[p + 2].px = filtered_image.px
                /\ history_position' = p + 1
                /\ ~get_history_info(Editor').can_redo]_vars

\* [s0,s1,s2] with the cursor brought back to s1, then a push of a new s3.
C3_Witness ==
    /\ last_op.op = "apply"
    /\ last_op.position = 1
    /\ last_op.total_states = 3
    /\ Len(history) = 3
    /\ history_position = 2
    /\ history[3].px # history[2].px

\* C4: a push with the cursor on top appends the snapshot while there is
\* room; on a full history it evicts the oldest entry, the others move down
\* one index, and the cursor stays on the snapshot just pushed.  So max_history
\* + 1 pushes into an empty history leave the last max_history of them.
C4_EvictionDropsOldest ==
    [][(/\ last_op'.op = "apply"
        /\ filtered_image # None
        /\ history_position = Len(history) - 1)
          => IF Len(history) < max_history
             THEN /\ Len(history') = Len(history) + 1
                  /\ \A i \in 1..Len(history) : history'[i].px = history[i].px
                  /\ history'[Len(history')].px = filtered_image.px
                  /\ history_position' = Len(history') - 1
             ELSE /\ Len(history') = max_history
                  /\ \A i \in 1..(max_history - 1) : history'[i].px = history[i + 1].px
                  /\ history'[max_history].px = filtered_image.px
                  /\ history_position' = max_history - 1]_vars

\* A push onto a full history whose oldest entry differed from the next one.
C4_Witness ==
    /\ last_op.op = "apply"
    /\ last_op.total_states = max_history
    /\ last_op.position = max_history - 1
    /\ Len(history) = max_history
    /\ history_position = max_history - 1
    /\ history[1].px # history[max_history].px

\* C5: undo() immediately followed by redo() leaves the content of
\* edited_image as it was; stated for the states where undo() has a state to
\* go back to, which the claim's "every reachable state" includes.
C5_UndoRedoRoundTrip ==
    history_position > 0
        => redo(undo(Editor)).edited_image.px = edited_image.px

\* C6: after a load, revert_all() leaves edited_image and filtered_image
\* content-equal to original_image and the history empty with the cursor at
\* -1, whatever came before.
C6_RevertRestoresOriginal ==
    (last_op.op = "revert" /\ original_image # None)
        => /\ edited_image.px = original_image.px
           /\ filtered_image.px = original_image.px
           /\ get_history_info(Editor).total_states = 0
           /\ get_history_info(Editor).position = -1

\* A revert that found at least two snapshots in the history and a committed
\* image and a preview that both differed from the original.
C6_Witness ==
    /\ last_op.op = "revert"
    /\ last_op.total_states >= 2
    /\ original_image # None
    /\ last_op.edited # original_image.px
    /\ last_op.filtered # original_image.px
    /\ edited_image.px = original_image.px
    /\ history = <<>>

C8_BuffersNeverAlias ==
    [][/\ Cardinality({x.loc : x \in LiveArrays}') = LiveNames'
       /\ last_op'.op \in {"draw", "start_text_placement"}
            => /\ edited_image' = edited_image
               /\ original_image' = original_image
               /\ history' = history]_vars

\* A stroke drawn after an apply into a preview that was content-equal to
\* the committed image: the preview now differs from the committed image and
\* from the snapshot under the cursor.
C8_Witness ==
    /\ last_op.op = "draw"
    /\ history_position >= 0
    /\ last_op.filtered = edited_image.px
    /\ filtered_image.px # edited_image.px
    /\ history[history_position + 1].px = edited_image.px

\* C9: only a successful load changes the content of original_image.
C9_OriginalChangesOnlyOnLoad ==
    [][last_op'.op # "load" => original_image'.px = original_image.px]_vars

\* A stroke drawn after the committed image has moved away from the original.
C9_Witness ==
    /\ last_op.op = "draw"
    /\ original_image # None
    /\ edited_image.px # original_image.px
    /\ filtered_image.px # original_image.px

\* C10: the content of edited_image changes only through load, apply, revert,
\* undo and redo: no tool handler, neither cancel nor save changes it.
C10_CommittedChangesOnlyOnCommit ==
    [][last_op'.op \notin {"load", "apply", "revert", "undo", "redo"}
          => edited_image'.px = edited_image.px]_vars

\* An accepted crop: the preview holds the slice, the committed image is as
\* it was.
C10_Witness ==
    /\ last_op.op = "end_crop"
    /\ edited_image # None
    /\ last_op.filtered = edited_image.px
    /\ filtered_image.px # edited_image.px

\* C11: after every successful load the history is empty and the cursor is
\* -1, so that no snapshot of an earlier image is left to undo or redo to.
C11_LoadClearsHistory ==
    last_op.op = "load" => (history = <<>> /\ history_position = -1)

\* C12: right after apply_changes() or revert_all() has changed the buffers,
\* every flag a filter button consults (FilterTools.filter_states) is false.
C12_CommitResetsFilterFlags ==
    (last_op.op \in {"apply", "revert"} /\ edited_image # None)
        => \A f \in Filters : ~filter_states[f]

\* C13: right after a tool is selected with an image loaded, filtered_image
\* is content-equal to edited_image.
C13_ToolEntryResetsPreview ==
    (last_op.op \in SetupOps /\ edited_image # None)
        => filtered_image.px = edited_image.px

\* C14: after a tool is selected, every handler bound on the canvas belongs
\* to the tool whose panel is shown.
C14_BindingsBelongToTool ==
    last_op.op \in SetupOps
        => \A e \in EventSequences :
              bindings[e] # "unbound" => Owner[bindings[e]] = panel

\* C15: an undo() with history_position > 0, and a redo() with
\* history_position < len(history) - 1, move the cursor by one, leave
\* edited_image and filtered_image content-equal to the snapshot under the
\* new cursor, whatever filtered_image held, and leave the history entries
\* unchanged.
C15_UndoRedoRestoreSnapshot ==
    [][LET moved == IF last_op'.op = "undo" THEN -1 ELSE 1
       IN (\/ last_op'.op = "undo" /\ history_position > 0
           \/ last_op'.op = "redo" /\ history_position < Len(history) - 1)
            => /\ history_position' = history_position + moved
               /\ edited_image'.px = history[history_position' + 1].px
               /\ filtered_image'.px = history[history_position' + 1].px
               /\ history' = history]_vars

\* An undo that found a preview differing from the committed image and moved
\* the cursor: the preview it found is gone, the committed image and the
\* preview hold the content of the snapshot under the cursor.
C15_Witness ==
    /\ last_op.op = "undo"
    /\ last_op.position = history_position + 1
    /\ last_op.filtered # last_op.edited
    /\ filtered_image.px # last_op.filtered
    /\ filtered_image.px = edited_image.px
    /\ edited_image.px = history[history_position + 1].px

\* C16: get_history_info() reports can_undo = (position > 0) and can_redo =
\* (position < total_states - 1); undo() resp. redo() moves the cursor when
\* its flag is true and changes neither the history, the cursor, edited_image
\* nor filtered_image when it is false.
C16_FlagsTellWhatUndoRedoDo ==
    [][LET info == get_history_info(Editor)
           same == /\ history' = history
                   /\ history_position' = history_position
                   /\ edited_image' = edited_image
                   /\ filtered_image' = filtered_image
       IN /\ info.can_undo = (info.position > 0)
          /\ info.can_redo = (info.position < info.total_states - 1)
          /\ last_op'.op = "undo"
               => IF info.can_undo
                  THEN history_position' # history_position
                  ELSE same
          /\ last_op'.op = "redo"
               => IF info.can_redo
                  THEN history_position' # history_position
                  ELSE same]_vars

\* An undo at the first snapshot, with a state to redo to and a preview that
\* differs from the committed image: nothing changed.
C16_Witness ==
    /\ last_op.op = "undo"
    /\ last_op.position = 0
    /\ history_position = 0
    /\ Len(history) >= 2
    /\ filtered_image.px # edited_image.px
    /\ ~get_history_info(Editor).can_undo
    /\ get_history_info(Editor).can_redo

\* C17: a release of the pointer on a selection less than MIN_CROP_SIZE
\* canvas pixels wide or high changes neither filtered_image, edited_image
\* nor the history, and resets the coordinates of the selection.
C17_SmallSelectionRejected ==
    [][(/\ last_op'.op = "end_crop"
        /\ \/ Abs(crop.crop_end_x - crop.crop_start_x) < MIN_CROP_SIZE
           \/ Abs(crop.crop_end_y - crop.crop_start_y) < MIN_CROP_SIZE)
          => /\ filtered_image' = filtered_image
             /\ edited_image' = edited_image
             /\ history' = history
             /\ history_position' = history_position
             /\ crop' = NoCrop]_vars

\* A release on a dragged selection that is wide enough but only 9 canvas
\* pixels high, with an image loaded and a snapshot in the history.
C17_Witness ==
    /\ last_op.op = "end_crop"
    /\ last_op.crop.rectangle_id # 0
    /\ Abs(last_op.crop.crop_end_x - last_op.crop.crop_start_x) >= MIN_CROP_SIZE
    /\ Abs(last_op.crop.crop_end_y - last_op.crop.crop_start_y) = MIN_CROP_SIZE - 1
    /\ edited_image # None
    /\ Len(history) >= 1
    /\ crop = NoCrop

\* C18: for every accepted selection the slice end_crop takes has each of
\* its corners inside [0, width] x [0, height] of edited_image, and the
\* preview it yields is end_x - start_x wide and end_y - start_y high; the
\* selection (410,310)-(460,380) on a 100x100 image shown at its own size,
\* image rectangle (10,10)-(60,80), yields 50 wide and 70 high.
C18_CropTakesClampedRectangle ==
    probe.fn = "end_crop"
        => LET r == probe.result
           IN /\ r.start_x \in 0..probe.committed.width
              /\ r.end_x   \in 0..probe.committed.width
              /\ r.start_y \in 0..probe.committed.height
              /\ r.end_y   \in 0..probe.committed.height
              /\ r.shape.width  = r.end_x - r.start_x
              /\ r.shape.height = r.end_y - r.start_y
              /\ (/\ probe.committed = [height |-> 100, width |-> 100]
                  /\ probe.view \in display_image(InitView, probe.committed)
                  /\ probe.crop.crop_start_x = 410 /\ probe.crop.crop_start_y = 310
                  /\ probe.crop.crop_end_x = 460 /\ probe.crop.crop_end_y = 380)
                    => (/\ r.start_x = 10 /\ r.start_y = 10
                        /\ r.end_x = 60 /\ r.end_y = 80
                        /\ r.shape = [height |-> 70, width |-> 50])

\* A selection reaching beyond a scaled-down image on both axes: the far
\* corner is cut to the image, the near one lies inside it.
C18_Witness ==
    /\ probe.fn = "end_crop"
    /\ probe.view.ratio.num > probe.view.ratio.den
    /\ probe.crop.crop_end_x = 899 /\ probe.crop.crop_end_y = 699
    /\ probe.result.end_x = probe.committed.width
    /\ probe.result.end_y = probe.committed.height
    /\ probe.result.start_x > 0 /\ probe.result.start_y > 0
    /\ probe.result.shape.width > 0 /\ probe.result.shape.height > 0

\* C19: for every image at least 1 wide and 1 high the display size is at
\* most default_width - padding = 800 wide and default_height - padding =
\* 600 high.
C19_DisplayFitsBudget ==
    probe.fn = "_calculate_display_dimensions"
        => /\ probe.result.new_width <= default_width - padding
           /\ probe.result.new_height <= default_height - padding

\* C20: an image whose width is at most default_width - padding = 800 is
\* never displayed wider than it is.
C20_DisplayNeverUpscales ==
    (/\ probe.fn = "_calculate_display_dimensions"
     /\ probe.width <= default_width - padding)
        => probe.result.new_width <= probe.width

\* C21: an image point taken to the canvas by get_canvas_coordinates and back
\* by get_image_coordinates comes back within 1 of where it started on each
\* axis, under every view.
C21_RoundTripWithinOne ==
    probe.fn = "round_trip"
        => /\ Abs(probe.result.x - probe.image.x) <= 1
           /\ Abs(probe.result.y - probe.image.y) <= 1

\* C22: for one canvas position under one view, end_crop, draw and
\* start_text_placement compute the image point get_image_coordinates
\* computes: the canvas coordinate minus the offset, times the ratio.
C22_ToolsShareTheMapping ==
    probe.fn = "tool_points"
        => /\ probe.crop = probe.mapper
           /\ probe.draw = probe.mapper
           /\ probe.text = probe.mapper

\* C23: every segment draw writes into filtered_image has the colour selected
\* at the time of the move, color_code, which is also the colour of the line
\* draw puts on the canvas for that move.
C23_StrokeHasSelectedColour ==
    (last_op.op = "draw" /\ filtered_image # None)
        => /\ last_op.stroke.preview = color_code
           /\ last_op.stroke.preview = last_op.stroke.overlay

\* C24: a load that is cancelled in the dialog, or fails on the extension or
\* in cv2.imread, leaves original_image, edited_image, filtered_image and the
\* history as they were.
C24_FailedLoadChangesNothing ==
    [][last_op'.op = "load_failed"
          => /\ original_image' = original_image
             /\ edited_image' = edited_image
             /\ filtered_image' = filtered_image
             /\ history' = history
             /\ history_position' = history_position]_vars

\* A failed load after an apply, with a preview that differs from the
\* committed image.
C24_Witness ==
    /\ last_op.op = "load_failed"
    /\ original_image # None
    /\ Len(history) >= 1
    /\ filtered_image.px # edited_image.px

\* C25: once an image has been loaded, edited_image and filtered_image are
\* not None in any later state.
C25_WorkingCopiesNeverNone ==
    original_image # None
        => (edited_image # None /\ filtered_image # None)

\* A failed load after a revert and a tool operation: the image loaded
\* before is still there, with its preview.
C25_Witness ==
    /\ last_op.op = "load_failed"
    /\ original_image # None
    /\ edited_image # None
    /\ filtered_image # None
    /\ history_position = -1
    /\ filtered_image.px # original_image.px

\* C26: apply_changes, cancel_changes and revert_all enter the handlers along
\* apply_changes -> cancel_changes -> revert_all -> report only, each at most
\* once, starting from the handler invoked; and a revert_all that fails
\* changes neither a buffer nor the history.
C26_RecoveryChain ==
    [][LET Chain == <<"apply_changes", "cancel_changes", "revert_all", "report">>
           first == CASE last_op'.op = "apply"  -> 1
                      [] last_op'.op = "cancel" -> 2
                      [] OTHER                  -> 3
       IN last_op'.op \in {"apply", "cancel", "revert"}
            => /\ \E last \in first..4 : last_op'.chain = SubSeq(Chain, first, last)
               /\ last_op'.chain = <<"revert_all", "report">>
                    => /\ original_image' = original_image
                       /\ edited_image' = edited_image
                       /\ filtered_image' = filtered_image
                       /\ history' = history
                       /\ history_position' = history_position]_vars

\* C27: apply_changes, cancel_changes and revert_all invoked before any image
\* has been loaded leave the three buffers None and the history empty with
\* the cursor at -1, and return: cancel_changes through revert_all, none of
\* them through the report of a failed revert.
C27_ActionsBeforeLoadChangeNothing ==
    (last_op.op \in {"apply", "cancel", "revert"} /\ original_image = None)
        => /\ edited_image = None
           /\ filtered_image = None
           /\ history = <<>>
           /\ history_position = -1
           /\ last_op.chain \in {<<"apply_changes">>,
                                 <<"cancel_changes", "revert_all">>,
                                 <<"revert_all">>}

\* A cancel before any load, recovered through revert_all, a tool panel
\* being open.
C27_Witness ==
    /\ last_op.op = "cancel"
    /\ last_op.chain = <<"cancel_changes", "revert_all">>
    /\ original_image = None
    /\ edited_image = None
    /\ panel # "none"
    /\ history = <<>>

\* C28: save_image gives cv2.imwrite the content of edited_image, and whether
\* the dialog is cancelled, cv2.imwrite succeeds or fails, it changes neither
\* a buffer nor the history.
C28_SaveWritesCommitted ==
    [][last_op'.op = "save"
          => /\ original_image' = original_image
             /\ edited_image' = edited_image
             /\ filtered_image' = filtered_image
             /\ history' = history
             /\ history_position' = history_position
             /\ last_op'.written # NotWritten
                  => last_op'.written.image = edited_image.px]_vars

\* A successful save while the preview differs from the committed image.
C28_Witness ==
    /\ last_op.op = "save"
    /\ last_op.written # NotWritten
    /\ last_op.written.success
    /\ last_op.written.image = edited_image.px
    /\ filtered_image.px # edited_image.px

\* C29: after a release of the pointer on a selection less than
\* MIN_CROP_SIZE canvas pixels wide or high, no selection rectangle is left
\* on the canvas.
C29_RejectedSelectionLeavesNoRectangle ==
    [][(/\ last_op'.op = "end_crop"
        /\ \/ Abs(crop.crop_end_x - crop.crop_start_x) < MIN_CROP_SIZE
           \/ Abs(crop.crop_end_y - crop.crop_start_y) < MIN_CROP_SIZE)
          => canvas' = {}]_vars

\* C30: a press of the button of filter f with an image loaded flips the flag
\* of f and no other; when the flag was false filtered_image becomes f of
\* edited_image, whatever filtered_image held and whatever the other flags
\* are, and when it was true a copy of edited_image; edited_image stays.
C30_FilterAppliesToCommitted ==
    [][(last_op'.op = "toggle_filter" /\ edited_image # None)
          => \E f \in Filters :
                /\ filter_states'[f] = ~filter_states[f]
                /\ \A g \in Filters \ {f} : filter_states'[g] = filter_states[g]
                /\ edited_image' = edited_image
                /\ filtered_image'.px = IF filter_states[f]
                                        THEN edited_image.px
                                        ELSE FilterResult[f][edited_image.px]]_vars

\* A filter switched on while the other one was on and the preview differed
\* from the committed image: the preview is the filter of the committed
\* image, not of the preview it found.
C30_Witness ==
    /\ last_op.op = "toggle_filter"
    /\ \A g \in Filters : filter_states[g]
    /\ last_op.filtered # last_op.edited
    /\ \E f \in Filters :
          /\ filtered_image.px = FilterResult[f][edited_image.px]
          /\ filtered_image.px # FilterResult[f][last_op.filtered]

\* C31: a click of the text tool leaves in filtered_image, in storage of its
\* own, the content of edited_image with the text written over it, whatever
\* the preview held before, and leaves edited_image and the history as they
\* were.
C31_TextPlacedOnCommitted ==
    [][(last_op'.op = "start_text_placement" /\ edited_image # None)
          => /\ filtered_image'.px = putText[edited_image.px]
             /\ filtered_image'.loc # edited_image'.loc
             /\ edited_image' = edited_image
             /\ original_image' = original_image
             /\ history' = history
             /\ history_position' = history_position]_vars

\* A click of the text tool on a preview that already held the text of an
\* earlier click: the preview holds the text once.
C31_Witness ==
    /\ last_op.op = "start_text_placement"
    /\ last_op.edited # None.px
    /\ last_op.filtered = putText[last_op.edited]
    /\ filtered_image.px = putText[edited_image.px]
    /\ filtered_image.px # putText[last_op.filtered]

\* C32: after a successful load, after a revert with an image loaded and
\* after an apply, current_rotation is 0 and both flip flags are false.
C32_TransformStateReset ==
    [][(\/ last_op'.op = "load"
        \/ last_op'.op = "revert" /\ original_image # None
        \/ last_op'.op = "apply")
          => transforms' = NoTransforms]_vars

\* C33: whenever the history holds a snapshot, edited_image is content-equal
\* to the snapshot under the cursor.
C33_CursorOnCommitted ==
    history # <<>>
        => /\ history_position \in 0..(Len(history) - 1)
           /\ edited_image.px = history[history_position + 1].px

\* C34: after one load and at least one apply, with no other operation on
\* the history than undos after the applies, whenever no undo is offered
\* edited_image is content-equal to the image as loaded.
C34_UndoReachesLoadedImage ==
    (history # <<>> /\ ~get_history_info(Editor).can_undo)
        => edited_image.px = original_image.px

\* C35: an apply_changes that raises leaves, after its recovery, edited_image
\* and the history, entries and cursor, as they were before the call.
C35_FailedApplyChangesNothing ==
    [][(last_op'.op = "apply" /\ Len(last_op'.chain) > 1)
          => /\ edited_image' = edited_image
             /\ history' = history
             /\ history_position' = history_position]_vars

\* C36: the preview an accepted selection leaves has at least one row and
\* one column, the view being the one left by the display of the committed
\* image the selection is taken from.
C36_CropPreviewNotEmpty ==
    (/\ probe.fn = "end_crop"
     /\ probe.view \in display_image(InitView, probe.committed))
        => /\ probe.result.shape.width >= 1
           /\ probe.result.shape.height >= 1

\* C37: in the crop tool, a release of the pointer that follows a press with
\* no motion between them finds a selection that _validate_crop_size
\* rejects, and leaves filtered_image as it was.
C37_ClickIsRejected ==
    [][(last_op.op = "start_crop" /\ last_op'.op = "end_crop")
          => /\ ~_validate_crop_size(Editor)
             /\ filtered_image' = filtered_image]_vars

\* C38: whenever end_crop maps an accepted selection, the view it reads is
\* the one display_image computed from an image with the dimensions of the
\* edited_image it slices.
C38_ViewIsOfCommitted ==
    [][(probe.fn = "crop_session" /\ probe'.fn = "crop_session" /\ probe'.op = "end_crop")
          => /\ probe.shown = probe.edited_image
             /\ probe.view \in display_image(InitView, probe.edited_image)]_vars

\* C39: a press of a filter button that comes next after a cancel, a load, an
\* undo or a redo that made filtered_image a copy of edited_image switches a
\* filter on: no flag of filter_states goes from true to false, and
\* filtered_image becomes the result of the filter on edited_image.
C39_FilterButtonAppliesAfterReset ==
    [][(/\ last_op'.op = "toggle_filter"
        /\ edited_image # None
        /\ \/ last_op.op \in {"cancel", "load"}
           \/ last_op.op \in {"undo", "redo"} /\ last_op.position # history_position)
          => \E f \in Filters :
                /\ ~filter_states[f]
                /\ filter_states' = [filter_states EXCEPT ![f] = TRUE]
                /\ filtered_image'.px = FilterResult[f][edited_image.px]]_vars

\* C40: for every ratio display_image leaves after showing an image of at
\* least 1 x 1 from the initial view, the thickness int(ratio * 2) that draw
\* passes to cv2.line is at least 1.
C40_ThicknessAtLeastOne ==
    probe.fn = "line_thickness" => probe.thickness >= 1

\* An image shown larger than it is (ratio below 1) is drawn on with
\* thickness 1.
C40_Witness ==
    /\ probe.fn = "line_thickness"
    /\ probe.view.ratio.num < probe.view.ratio.den
    /\ probe.thickness = 1

====
